---- MODULE Spec2Model ----
(***************************************************************************)
(* Terraform resource handlers of the OpenTelekomCloud provider:           *)
(*   - networking router v2   (vpc/resource_..._networking_router_v2.go)   *)
(*   - SFS file system v2     (sfs/resource_..._sfs_file_system_v2.go)     *)
(*   - WAF precise protection rule v1 (waf/..._preciseprotection_rule_v1)  *)
(* One handler invocation runs at a time.  Every SDK call is one step; its *)
(* response (ok / 404 / other error, and the object returned) is an input  *)
(* chosen by the remote API.  The requests issued are recorded in `calls`. *)
(***************************************************************************)
EXTENDS Integers, Sequences, FiniteSets, TLC

VARIABLES
    resource,   \* which resource the running handler belongs to
    oper,       \* which handler runs: Create / Read / Update / Delete / Validate
    pc,         \* position inside the handler
    ret,        \* "none" while running, else "ok" | "err" | "fault" (panic)
    id,         \* d.Id()
    dOld,       \* prior Terraform state of the resource (d.GetChange old side)
    dNew,       \* planned values, overwritten by d.Set (what d.Get returns)
    calls,      \* the SDK requests issued so far, in order, with their results
    polls,      \* refreshes made by the running StateChangeConf wait
    waitErr,    \* result of WaitForState: "none" | "nil" | "timeout" | "unexpected" | "refresh"
    visited,    \* number of schema attributes InternalValidate has gone through
    mutexKV,    \* osMutexKV: for every key, whether its mutex is locked
    procs,      \* concurrent Update calls of the router: one record each
    setErr      \* the attribute whose d.Set failed in SFS Read, "none" if none did

vars == <<resource, oper, pc, ret, id, dOld, dNew, calls, polls, waitErr, visited,
          mutexKV, procs, setErr>>

\* Refreshes that fit into the timeout of one wait (Timeouts: 10 minutes).
MaxPolls == 2

\* ID the API assigns to a created object (n.ID, share.ID, rule.Id).
NewID == "id1"

\* Outcomes of one SDK call: success, golangsdk.ErrDefault404, any other error.
Responses == {"ok", "404", "err"}

Last(s) == s[Len(s)]

CallsOf(fn) == {i \in 1..Len(calls) : calls[i].fn = fn}

----------------------------------------------------------------------------
(* resource.StateChangeConf: the verdict on one refresh result.  r.obj is  *)
(* never a nil interface on the error-free paths of the refresh functions  *)
(* below (they return a router/share pointer), so NotFoundChecks never     *)
(* counts; ContinuousTargetOccurence is 1.                                 *)
WaitForState(pending, target, r) ==
    IF r.err # "nil" THEN "refresh"
    ELSE IF r.state \in target THEN "nil"
    ELSE IF r.state \in pending THEN "pending"
    ELSE "unexpected"

----------------------------------------------------------------------------
(* Router                                                                  *)

RouterStatuses == {"BUILD", "PENDING_CREATE", "PENDING_UPDATE", "ACTIVE", "ERROR"}

RouterCreatePending == {"BUILD", "PENDING_CREATE", "PENDING_UPDATE"}
RouterCreateTarget  == {"ACTIVE"}
RouterDeletePending == {"ACTIVE"}
RouterDeleteTarget  == {"DELETED"}

RouterNames    == {"", "rt"}
RouterGateways == {"", "net1", "net2"}
RouterTenants  == {"", "t1"}

RouterData ==
    [name : RouterNames, admin_state_up : BOOLEAN, distributed : BOOLEAN,
     tenant_id : RouterTenants, external_gateway : RouterGateways,
     enable_snat : BOOLEAN]

RouterZero ==
    [name |-> "", admin_state_up |-> FALSE, distributed |-> FALSE,
     tenant_id |-> "", external_gateway |-> "", enable_snat |-> FALSE]

\* Routers the API may return from routers.Get in Read.
RemoteRouters(d) ==
    {d, [name |-> "rt", admin_state_up |-> TRUE, distributed |-> FALSE,
         tenant_id |-> "t1", external_gateway |-> "net2", enable_snat |-> TRUE]}

\* d.HasChange(key)
HasChange(key) == dOld[key] # dNew[key]

\* createOpts of resourceNetworkingRouterV2Create; "unset" is a nil pointer / omitted.
RouterCreateOpts(d) ==
    [Name         |-> d.name,
     TenantID     |-> d.tenant_id,
     AdminStateUp |-> IF d.admin_state_up THEN "true" ELSE "unset",
     Distributed  |-> IF d.distributed THEN "true" ELSE "unset",
     GatewayInfo  |-> IF d.external_gateway # ""
                      THEN [NetworkID  |-> d.external_gateway,
                            EnableSNAT |-> IF d.enable_snat THEN "true" ELSE "unset"]
                      ELSE [nil |-> TRUE]]

\* The refresh function of the create wait.  When routers.Get fails, Extract
\* hands back a nil *Router with the error, and `return nil, r.Status, err`
\* reads a field of it: a nil pointer dereference (fault).
waitForRouterActive(res, status) ==
    IF res # "ok"
    THEN [fault |-> TRUE,  state |-> "", err |-> res]
    ELSE [fault |-> FALSE, state |-> status, err |-> "nil"]

resourceNetworkingRouterV2Create ==
    /\ pc = "start" /\ resource = "router" /\ oper = "Create"
    /\ \E clientOk \in BOOLEAN, res \in {"ok", "err"} :
         IF ~clientOk
         THEN /\ ret' = "err" /\ pc' = "done" /\ UNCHANGED calls
         ELSE IF dNew.enable_snat /\ dNew.external_gateway = ""
         THEN /\ ret' = "err" /\ pc' = "done" /\ UNCHANGED calls
         ELSE /\ calls' = Append(calls, [fn |-> "routers.Create",
                                         opts |-> RouterCreateOpts(dNew), res |-> res])
              /\ IF res = "ok"
                 THEN pc' = "wait" /\ UNCHANGED ret
                 ELSE pc' = "done" /\ ret' = "err"
    /\ UNCHANGED <<resource, oper, id, dOld, dNew, polls, waitErr, visited, mutexKV, procs, setErr>>

resourceNetworkingRouterV2Create_Refresh ==
    /\ pc = "wait" /\ resource = "router" /\ oper = "Create"
    /\ polls < MaxPolls
    /\ \E res \in Responses, status \in RouterStatuses :
         LET r == waitForRouterActive(res, status)
             v == WaitForState(RouterCreatePending, RouterCreateTarget, r)
         IN  /\ res # "ok" => status = "ACTIVE"
             /\ calls' = Append(calls, [fn |-> "routers.Get", res |-> res,
                                        status |-> r.state, in |-> "wait"])
             /\ polls' = polls + 1
             /\ IF r.fault
                THEN pc' = "done" /\ ret' = "fault" /\ UNCHANGED waitErr
                ELSE IF v = "pending"
                THEN UNCHANGED <<pc, ret, waitErr>>
                ELSE pc' = "waited" /\ waitErr' = v /\ UNCHANGED ret
    /\ UNCHANGED <<resource, oper, id, dOld, dNew, visited, mutexKV, procs, setErr>>

resourceNetworkingRouterV2Create_Timeout ==
    /\ pc = "wait" /\ resource = "router" /\ oper = "Create"
    /\ pc' = "waited" /\ waitErr' = "timeout"
    /\ UNCHANGED <<resource, oper, ret, id, dOld, dNew, calls, polls, visited, mutexKV, procs, setErr>>

\* `_, err = stateConf.WaitForStateContext(ctx)` is followed by d.SetId(n.ID)
\* and the Read; err is not looked at.
resourceNetworkingRouterV2Create_SetId ==
    /\ pc = "waited" /\ resource = "router" /\ oper = "Create"
    /\ pc' = "read" /\ id' = NewID /\ UNCHANGED ret
    /\ UNCHANGED <<resource, oper, dOld, dNew, calls, polls, waitErr, visited, mutexKV, procs, setErr>>

\* What Read does with the result of routers.Get: [id, d, ret].
RouterReadResult(res, n) ==
    IF res = "404" THEN [id |-> "", d |-> dNew, ret |-> "ok"]
    ELSE IF res = "err" THEN [id |-> id, d |-> dNew, ret |-> "err"]
    ELSE [id |-> id, d |-> n, ret |-> "ok"]

resourceNetworkingRouterV2Read ==
    /\ resource = "router"
    /\ \/ pc = "start" /\ oper = "Read"
       \/ pc = "read"
    /\ \E clientOk \in BOOLEAN, res \in Responses, n \in RemoteRouters(dNew) :
         IF ~clientOk
         THEN /\ res = "ok" /\ n = dNew
              /\ ret' = "err" /\ UNCHANGED <<id, dNew, calls>>
         ELSE LET out == RouterReadResult(res, n)
              IN  /\ res # "ok" => n = dNew
                  /\ calls' = Append(calls, [fn |-> "routers.Get", res |-> res,
                                             status |-> "", in |-> "read"])
                  /\ id' = out.id /\ dNew' = out.d /\ ret' = out.ret
    /\ pc' = "done"
    /\ UNCHANGED <<resource, oper, dOld, polls, waitErr, visited, mutexKV, procs, setErr>>

\* Mutant: GatewayInfo is put into the request whether or not it changed.
RouterUpdateOptsAlwaysGateway(o, n) ==
    [Name         |-> IF o.name # n.name THEN n.name ELSE "",
     AdminStateUp |-> IF o.admin_state_up # n.admin_state_up
                      THEN (IF n.admin_state_up THEN "true" ELSE "false")
                      ELSE "unset",
     GatewayInfo  |-> [NetworkID  |-> n.external_gateway,
                       EnableSNAT |-> IF o.enable_snat # n.enable_snat
                                      THEN (IF n.enable_snat THEN "true" ELSE "false")
                                      ELSE "unset"]]

\* updateOpts of resourceNetworkingRouterV2Update for prior state o and plan n.
\* Name "" and GatewayInfo [nil |-> TRUE] are the zero values (left out of the
\* request); "unset" is a nil pointer.
RouterUpdateOpts(o, n) ==
    [Name         |-> IF o.name # n.name THEN n.name ELSE "",
     AdminStateUp |-> IF o.admin_state_up # n.admin_state_up
                      THEN (IF n.admin_state_up THEN "true" ELSE "false")
                      ELSE "unset",
     GatewayInfo  |-> IF o.external_gateway # n.external_gateway
                         \/ o.enable_snat # n.enable_snat
                      THEN [NetworkID  |-> n.external_gateway,
                            EnableSNAT |-> IF o.enable_snat # n.enable_snat
                                           THEN (IF n.enable_snat THEN "true" ELSE "false")
                                           ELSE "unset"]
                      ELSE [nil |-> TRUE]]

\* Mutant: Update has no early return for enable_snat without a gateway.
RouterUpdateRejectsNever(o, n) ==
    FALSE

\* The early return of Update: enable_snat changed while external_gateway is empty.
RouterUpdateRejects(o, n) ==
    o.enable_snat # n.enable_snat /\ n.external_gateway = ""

resourceNetworkingRouterV2Update ==
    /\ pc = "start" /\ resource = "router" /\ oper = "Update"
    /\ \E clientOk \in BOOLEAN, res \in {"ok", "err"} :
         IF ~clientOk
         THEN /\ res = "ok" /\ ret' = "err" /\ pc' = "done" /\ UNCHANGED calls
         ELSE IF RouterUpdateRejects(dOld, dNew)
         THEN /\ res = "ok" /\ ret' = "err" /\ pc' = "done" /\ UNCHANGED calls
         ELSE /\ calls' = Append(calls, [fn |-> "routers.Update",
                                         opts |-> RouterUpdateOpts(dOld, dNew), res |-> res])
              /\ IF res = "ok"
                 THEN pc' = "read" /\ UNCHANGED ret
                 ELSE pc' = "done" /\ ret' = "err"
    /\ UNCHANGED <<resource, oper, id, dOld, dNew, polls, waitErr, visited, mutexKV, procs, setErr>>

\* Mutant: an accepted routers.Delete is reported as DELETED.
waitForRouterDeleteAcceptedIsDeleted(get, del) ==
    IF get = "404" THEN [state |-> "DELETED", err |-> "nil"]
    ELSE IF get = "err" THEN [state |-> "ACTIVE", err |-> get]
    ELSE IF del = "err" THEN [state |-> "ACTIVE", err |-> del]
    ELSE [state |-> "DELETED", err |-> "nil"]

\* Mutant: the 404 of routers.Get is not told apart from other errors.
waitForRouterDeleteNo404Check(get, del) ==
    IF get # "ok" THEN [state |-> "ACTIVE", err |-> get]
    ELSE IF del = "404" THEN [state |-> "DELETED", err |-> "nil"]
    ELSE IF del = "err" THEN [state |-> "ACTIVE", err |-> del]
    ELSE [state |-> "ACTIVE", err |-> "nil"]

\* The refresh function of the delete wait: routers.Get, then routers.Delete
\* when the router is still there.  del = "skip": routers.Delete is not called.
waitForRouterDelete(get, del) ==
    IF get = "404" THEN [state |-> "DELETED", err |-> "nil"]
    ELSE IF get = "err" THEN [state |-> "ACTIVE", err |-> get]
    ELSE IF del = "404" THEN [state |-> "DELETED", err |-> "nil"]
    ELSE IF del = "err" THEN [state |-> "ACTIVE", err |-> del]
    ELSE [state |-> "ACTIVE", err |-> "nil"]

\* Whether the refresh function goes on to routers.Delete after routers.Get.
RouterDeleteIssuesDelete(get) == get = "ok"

resourceNetworkingRouterV2Delete ==
    /\ pc = "start" /\ resource = "router" /\ oper = "Delete"
    /\ \E clientOk \in BOOLEAN :
         IF clientOk
         THEN pc' = "wait" /\ UNCHANGED ret
         ELSE pc' = "done" /\ ret' = "err"
    /\ UNCHANGED <<resource, oper, id, dOld, dNew, calls, polls, waitErr, visited, mutexKV, procs, setErr>>

resourceNetworkingRouterV2Delete_Refresh ==
    /\ pc = "wait" /\ resource = "router" /\ oper = "Delete"
    /\ polls < MaxPolls
    /\ \E get \in Responses, del \in Responses :
         LET r == waitForRouterDelete(get, del)
             v == WaitForState(RouterDeletePending, RouterDeleteTarget, r)
             g == [fn |-> "routers.Get", res |-> get, status |-> "", in |-> "wait"]
             x == [fn |-> "routers.Delete", res |-> del]
         IN  /\ ~RouterDeleteIssuesDelete(get) => del = "ok"
             /\ calls' = IF RouterDeleteIssuesDelete(get)
                         THEN calls \o <<g, x>> ELSE Append(calls, g)
             /\ polls' = polls + 1
             /\ IF v = "pending"
                THEN UNCHANGED <<pc, waitErr>>
                ELSE pc' = "waited" /\ waitErr' = v
    /\ UNCHANGED <<resource, oper, ret, id, dOld, dNew, visited, mutexKV, procs, setErr>>

resourceNetworkingRouterV2Delete_Timeout ==
    /\ pc = "wait" /\ resource = "router" /\ oper = "Delete"
    /\ pc' = "waited" /\ waitErr' = "timeout"
    /\ UNCHANGED <<resource, oper, ret, id, dOld, dNew, calls, polls, visited, mutexKV, procs, setErr>>

resourceNetworkingRouterV2Delete_Return ==
    /\ pc = "waited" /\ resource = "router" /\ oper = "Delete"
    /\ IF waitErr # "nil"
       THEN ret' = "err" /\ UNCHANGED id
       ELSE ret' = "ok" /\ id' = ""
    /\ pc' = "done"
    /\ UNCHANGED <<resource, oper, dOld, dNew, calls, polls, waitErr, visited, mutexKV, procs, setErr>>

----------------------------------------------------------------------------
(* SFS file system                                                         *)

ShareStatuses == {"creating", "available", "deleting", "error"}

SFSCreatePending == {"creating"}
SFSCreateTarget  == {"available"}
SFSDeletePending == {"available", "deleting"}
SFSDeleteTarget  == {"deleted"}

\* strings.HasPrefix(s, prefix)
HasPrefix(s, prefix) ==
    Len(s) >= Len(prefix) /\ SubSeq(s, 1, Len(prefix)) = prefix

\* strings.Contains(s, substr)
Contains(s, substr) ==
    \E i \in 1..(Len(s) - Len(substr) + 1) :
        SubSeq(s, i, i + Len(substr) - 1) = substr

\* A metadata map without entries.
NoMetadata == [k \in {} |-> ""]

\* The `metadata` of the configuration.
ConfigMetadata == [k \in {"team"} |-> "ops"]

\* Metadata maps the API may return with a share.
RemoteMetadata ==
    {NoMetadata,
     [k \in {"#sfs_quota_type", "team", "a#sfs"} |->
        CASE k = "#sfs_quota_type" -> "soft" [] k = "team" -> "ops" [] k = "a#sfs" -> "v1"],
     [k \in {"enterprise_project_id", "share_used", "x_share_used", "sfs", "share_use"} |->
        CASE k = "enterprise_project_id" -> "0" [] k = "share_used" -> "12"
          [] k = "x_share_used" -> "5" [] k = "sfs" -> "s" [] k = "share_use" -> "u"]}

SFSData ==
    [share_proto : {"NFS", "CIFS"}, size : {1, 2}, name : {"", "fs"},
     description : {"", "txt"}, is_public : {FALSE}, availability_zone : {"az1"},
     access_level : {"ro", "rw"}, access_type : {"cert", "ip"},
     access_to : {"vpc1", "vpc2"}, share_access_id : {"acc0"}, status : {"available"},
     metadata : {ConfigMetadata}]

SFSZero ==
    [share_proto |-> "", size |-> 0, name |-> "", description |-> "",
     is_public |-> FALSE, availability_zone |-> "", access_level |-> "",
     access_type |-> "", access_to |-> "", share_access_id |-> "", status |-> "",
     metadata |-> NoMetadata]

\* The share the API returns when it just mirrors d.
SFSMirror(d) == [d EXCEPT !.status = "available", !.metadata = NoMetadata]

\* Shares the API may return from shares.Get in Read; `metadata` is share.Metadata.
RemoteShares(d) ==
    {[n EXCEPT !.metadata = m] :
        n \in {SFSMirror(d),
               [share_proto |-> "NFS", size |-> 2, name |-> "srv", description |-> "",
                is_public |-> FALSE, availability_zone |-> "az1", status |-> "error",
                access_level |-> d.access_level, access_type |-> d.access_type,
                access_to |-> d.access_to, share_access_id |-> d.share_access_id,
                metadata |-> NoMetadata]},
        m \in RemoteMetadata}

\* Access rule lists the API may return from shares.ListAccessRights.
RemoteRules(d) ==
    {<<>>,
     <<[ID |-> "acc1", State |-> "active", AccessTo |-> d.access_to,
        AccessType |-> d.access_type, AccessLevel |-> d.access_level]>>,
     <<[ID |-> "acc2", State |-> "error", AccessTo |-> "vpc9",
        AccessType |-> "cert", AccessLevel |-> "ro"]>>}

SFSCreateOpts(d) ==
    [ShareProto |-> d.share_proto, Size |-> d.size, Name |-> d.name,
     Description |-> d.description, IsPublic |-> d.is_public,
     Metadata |-> d.metadata, AvailabilityZone |-> d.availability_zone]

SFSGrantAccessOpts(d) ==
    [AccessLevel |-> d.access_level, AccessType |-> d.access_type,
     AccessTo |-> d.access_to]

\* Mutant: every error of shares.Get is reported as "deleted".
waitForSFSFileStatusAnyErrorIsDeleted(get, status) ==
    IF get # "ok" THEN [state |-> "deleted", err |-> "nil"]
    ELSE [state |-> status, err |-> "nil"]

\* The refresh function of both SFS waits.
waitForSFSFileStatus(get, status) ==
    IF get = "404" THEN [state |-> "deleted", err |-> "nil"]
    ELSE IF get = "err" THEN [state |-> "", err |-> get]
    ELSE [state |-> status, err |-> "nil"]

resourceSFSFileSystemV2Create ==
    /\ pc = "start" /\ resource = "sfs" /\ oper = "Create"
    /\ \E clientOk \in BOOLEAN, res \in {"ok", "err"} :
         IF ~clientOk
         THEN /\ res = "ok" /\ ret' = "err" /\ pc' = "done" /\ UNCHANGED calls
         ELSE /\ calls' = Append(calls, [fn |-> "shares.Create",
                                         opts |-> SFSCreateOpts(dNew), res |-> res])
              /\ IF res = "ok"
                 THEN pc' = "wait" /\ UNCHANGED ret
                 ELSE pc' = "done" /\ ret' = "err"
    /\ UNCHANGED <<resource, oper, id, dOld, dNew, polls, waitErr, visited, mutexKV, procs, setErr>>

\* One refresh of a wait on waitForSFSFileStatus, for Create and for Delete.
SFSRefresh(pending, target) ==
    /\ polls < MaxPolls
    /\ \E get \in Responses, status \in ShareStatuses :
         LET r == waitForSFSFileStatus(get, status)
             v == WaitForState(pending, target, r)
         IN  /\ get # "ok" => status = "available"
             /\ calls' = Append(calls, [fn |-> "shares.Get", res |-> get,
                                        status |-> r.state, in |-> "wait"])
             /\ polls' = polls + 1
             /\ IF v = "pending"
                THEN UNCHANGED <<pc, waitErr>>
                ELSE pc' = "waited" /\ waitErr' = v
    /\ UNCHANGED <<resource, oper, ret, id, dOld, dNew, visited, mutexKV, procs, setErr>>

resourceSFSFileSystemV2Create_Refresh ==
    /\ pc = "wait" /\ resource = "sfs" /\ oper = "Create"
    /\ SFSRefresh(SFSCreatePending, SFSCreateTarget)

resourceSFSFileSystemV2Create_Timeout ==
    /\ pc = "wait" /\ resource = "sfs" /\ oper = "Create"
    /\ pc' = "waited" /\ waitErr' = "timeout"
    /\ UNCHANGED <<resource, oper, ret, id, dOld, dNew, calls, polls, visited, mutexKV, procs, setErr>>

\* Mutant: the error of WaitForState is not looked at.
SFSCreateProceedsAlways(werr) == TRUE

\* Whether Create goes on to shares.GrantAccess after the wait.
SFSCreateProceeds(werr) == werr = "nil"

resourceSFSFileSystemV2Create_GrantAccess ==
    /\ pc = "waited" /\ resource = "sfs" /\ oper = "Create"
    /\ \E res \in {"ok", "err"} :
         IF ~SFSCreateProceeds(waitErr)
         THEN /\ res = "ok" /\ ret' = "err" /\ pc' = "done" /\ UNCHANGED <<calls, id>>
         ELSE /\ calls' = Append(calls, [fn |-> "shares.GrantAccess",
                                         opts |-> SFSGrantAccessOpts(dNew), res |-> res])
              /\ IF res = "ok"
                 THEN pc' = "read" /\ id' = NewID /\ UNCHANGED ret
                 ELSE pc' = "done" /\ ret' = "err" /\ UNCHANGED id
    /\ UNCHANGED <<resource, oper, dOld, dNew, polls, waitErr, visited, mutexKV, procs, setErr>>

\* Mutant: the '#sfs' test looks for the text anywhere in the key.
SFSUserMetadataContains(m) ==
    LET keep == {k \in DOMAIN m :
                    /\ ~Contains(k, "#sfs")
                    /\ ~(Contains(k, "enterprise_project_id") \/ Contains(k, "share_used"))}
    IN  [k \in keep |-> m[k]]

\* The metadata Read keeps of share.Metadata ("tries to remove system metadata").
SFSUserMetadata(m) ==
    LET keep == {k \in DOMAIN m :
                    /\ ~HasPrefix(k, "#sfs")
                    /\ ~(Contains(k, "enterprise_project_id") \/ Contains(k, "share_used"))}
    IN  [k \in keep |-> m[k]]

\* The attributes whose d.Set may fail in a Read ("none": every d.Set succeeds).
SFSSetFailures == {"none", "name", "metadata", "access_to"}

\* The attributes Read writes from the share and from the first access rule;
\* a d.Set that fails leaves its attribute as it was.
SFSSetShare(d, n, fail) ==
    [d EXCEPT !.name = IF fail = "name" THEN d.name ELSE n.name,
              !.share_proto = n.share_proto, !.status = n.status,
              !.size = n.size, !.description = n.description,
              !.is_public = n.is_public, !.availability_zone = n.availability_zone,
              !.metadata = IF fail = "metadata" THEN d.metadata
                           ELSE SFSUserMetadata(n.metadata)]

SFSSetRule(d, rule, fail) ==
    [d EXCEPT !.share_access_id = rule.ID,
              !.access_to = IF fail = "access_to" THEN d.access_to ELSE rule.AccessTo,
              !.access_type = rule.AccessType, !.access_level = rule.AccessLevel]

\* Mutant: every error of shares.Get is taken for "not found".
SFSReadResultAnyErrorIsGone(get, n, list, rules, fail) ==
    IF get # "ok" THEN [id |-> "", d |-> dNew, ret |-> "ok"]
    ELSE IF fail = "metadata"
    THEN [id |-> id, d |-> SFSSetShare(dNew, n, fail), ret |-> "err"]
    ELSE IF list = "404" THEN [id |-> "", d |-> SFSSetShare(dNew, n, fail), ret |-> "ok"]
    ELSE IF list = "err" THEN [id |-> id, d |-> SFSSetShare(dNew, n, fail), ret |-> "err"]
    ELSE IF Len(rules) = 0
    THEN [id |-> id, d |-> SFSSetShare(dNew, n, fail), ret |-> "ok"]
    ELSE [id |-> id, d |-> SFSSetRule(SFSSetShare(dNew, n, fail), rules[1], fail),
          ret |-> IF fail \in {"name", "access_to"} THEN "err" ELSE "ok"]

\* What Read does with the results of shares.Get and shares.ListAccessRights
\* when the d.Set of `fail` fails.  The failed d.Set of a share attribute or
\* of a rule attribute is collected in mErr, which only the last return looks
\* at; the failed d.Set of metadata is returned at once.
SFSReadResult(get, n, list, rules, fail) ==
    IF get = "404" THEN [id |-> "", d |-> dNew, ret |-> "ok"]
    ELSE IF get = "err" THEN [id |-> id, d |-> dNew, ret |-> "err"]
    ELSE IF fail = "metadata"
    THEN [id |-> id, d |-> SFSSetShare(dNew, n, fail), ret |-> "err"]
    ELSE IF list = "404" THEN [id |-> "", d |-> SFSSetShare(dNew, n, fail), ret |-> "ok"]
    ELSE IF list = "err" THEN [id |-> id, d |-> SFSSetShare(dNew, n, fail), ret |-> "err"]
    ELSE IF Len(rules) = 0
    THEN [id |-> id, d |-> SFSSetShare(dNew, n, fail), ret |-> "ok"]
    ELSE [id |-> id, d |-> SFSSetRule(SFSSetShare(dNew, n, fail), rules[1], fail),
          ret |-> IF fail \in {"name", "access_to"} THEN "err" ELSE "ok"]

resourceSFSFileSystemV2Read ==
    /\ resource = "sfs"
    /\ \/ pc = "start" /\ oper = "Read"
       \/ pc = "read"
    /\ \E clientOk \in BOOLEAN, get \in Responses, list \in Responses,
          n \in RemoteShares(dNew), rules \in RemoteRules(dNew),
          fail \in SFSSetFailures :
         LET g == [fn |-> "shares.Get", res |-> get, status |-> "", in |-> "read",
                   meta |-> n.metadata]
             l == [fn |-> "shares.ListAccessRights", res |-> list]
             listed == get = "ok" /\ fail # "metadata"
         IN
         IF ~clientOk
         THEN /\ get = "ok" /\ list = "ok" /\ rules = <<>> /\ n = SFSMirror(dNew)
              /\ fail = "none"
              /\ ret' = "err" /\ UNCHANGED <<id, dNew, calls, setErr>>
         ELSE LET out == SFSReadResult(get, n, list, rules, fail)
              IN  /\ get # "ok" => n = SFSMirror(dNew) /\ fail = "none"
                  /\ ~listed => list = "ok"
                  /\ (~listed \/ list # "ok") => rules = <<>>
                  /\ fail = "access_to" => rules # <<>>
                  /\ calls' = IF listed THEN calls \o <<g, l>> ELSE Append(calls, g)
                  /\ id' = out.id /\ dNew' = out.d /\ ret' = out.ret
                  /\ setErr' = fail
    /\ pc' = "done"
    /\ UNCHANGED <<resource, oper, dOld, polls, waitErr, visited, mutexKV, procs>>

\* Mutant: the size comparison is the wrong way round.
SFSUpdatePlanResizeSwapped(o, n) ==
    (IF o.description # n.description \/ o.name # n.name
     THEN <<[fn |-> "shares.Update",
             opts |-> [DisplayName |-> n.name, DisplayDescription |-> n.description]]>>
     ELSE <<>>)
    \o
    (IF o.access_to # n.access_to \/ o.access_level # n.access_level
        \/ o.access_type # n.access_type
     THEN <<[fn |-> "shares.DeleteAccess", opts |-> [AccessID |-> n.share_access_id]],
            [fn |-> "shares.GrantAccess", opts |-> SFSGrantAccessOpts(n)]>>
     ELSE <<>>)
    \o
    (IF o.size # n.size
     THEN <<[fn |-> IF o.size > n.size THEN "shares.Expand" ELSE "shares.Shrink",
             opts |-> [NewSize |-> n.size]]>>
     ELSE <<>>)

\* Mutant: the new rule is granted before the old one is deleted.
SFSUpdatePlanGrantFirst(o, n) ==
    (IF o.description # n.description \/ o.name # n.name
     THEN <<[fn |-> "shares.Update",
             opts |-> [DisplayName |-> n.name, DisplayDescription |-> n.description]]>>
     ELSE <<>>)
    \o
    (IF o.access_to # n.access_to \/ o.access_level # n.access_level
        \/ o.access_type # n.access_type
     THEN <<[fn |-> "shares.GrantAccess", opts |-> SFSGrantAccessOpts(n)],
            [fn |-> "shares.DeleteAccess", opts |-> [AccessID |-> n.share_access_id]]>>
     ELSE <<>>)
    \o
    (IF o.size # n.size
     THEN <<[fn |-> IF o.size < n.size THEN "shares.Expand" ELSE "shares.Shrink",
             opts |-> [NewSize |-> n.size]]>>
     ELSE <<>>)

\* The mutating requests Update plans for prior state o and plan n, in order.
SFSUpdatePlan(o, n) ==
    (IF o.description # n.description \/ o.name # n.name
     THEN <<[fn |-> "shares.Update",
             opts |-> [DisplayName |-> n.name, DisplayDescription |-> n.description]]>>
     ELSE <<>>)
    \o
    (IF o.access_to # n.access_to \/ o.access_level # n.access_level
        \/ o.access_type # n.access_type
     THEN <<[fn |-> "shares.DeleteAccess", opts |-> [AccessID |-> n.share_access_id]],
            [fn |-> "shares.GrantAccess", opts |-> SFSGrantAccessOpts(n)]>>
     ELSE <<>>)
    \o
    (IF o.size # n.size
     THEN <<[fn |-> IF o.size < n.size THEN "shares.Expand" ELSE "shares.Shrink",
             opts |-> [NewSize |-> n.size]]>>
     ELSE <<>>)

\* The requests Update issues when the API answers request i with rs[i]:
\* the plan up to and including the first request that fails.
SFSUpdateCalls(o, n, rs) ==
    LET plan == SFSUpdatePlan(o, n)
        bad  == {i \in 1..Len(plan) : rs[i] # "ok"}
        k    == IF bad = {} THEN Len(plan)
                ELSE CHOOSE i \in bad : \A j \in bad : i <= j
    IN  [i \in 1..k |-> [fn |-> plan[i].fn, opts |-> plan[i].opts, res |-> rs[i]]]

resourceSFSFileSystemV2Update ==
    /\ pc = "start" /\ resource = "sfs" /\ oper = "Update"
    /\ \E clientOk \in BOOLEAN, rs \in [1..4 -> {"ok", "err"}] :
         IF ~clientOk
         THEN /\ ret' = "err" /\ pc' = "done" /\ UNCHANGED calls
         ELSE LET issued == SFSUpdateCalls(dOld, dNew, rs)
              IN  /\ calls' = calls \o issued
                  /\ IF \E i \in 1..Len(issued) : issued[i].res # "ok"
                     THEN pc' = "done" /\ ret' = "err"
                     ELSE pc' = "read" /\ UNCHANGED ret
    /\ UNCHANGED <<resource, oper, id, dOld, dNew, polls, waitErr, visited, mutexKV, procs, setErr>>

resourceSFSFileSystemV2Delete ==
    /\ pc = "start" /\ resource = "sfs" /\ oper = "Delete"
    /\ \E clientOk \in BOOLEAN, res \in Responses :
         IF ~clientOk
         THEN /\ res = "ok" /\ ret' = "err" /\ pc' = "done" /\ UNCHANGED calls
         ELSE /\ calls' = Append(calls, [fn |-> "shares.Delete", res |-> res])
              /\ IF res = "ok"
                 THEN pc' = "wait" /\ UNCHANGED ret
                 ELSE pc' = "done" /\ ret' = "err"
    /\ UNCHANGED <<resource, oper, id, dOld, dNew, polls, waitErr, visited, mutexKV, procs, setErr>>

resourceSFSFileSystemV2Delete_Refresh ==
    /\ pc = "wait" /\ resource = "sfs" /\ oper = "Delete"
    /\ SFSRefresh(SFSDeletePending, SFSDeleteTarget)

resourceSFSFileSystemV2Delete_Timeout ==
    /\ pc = "wait" /\ resource = "sfs" /\ oper = "Delete"
    /\ pc' = "waited" /\ waitErr' = "timeout"
    /\ UNCHANGED <<resource, oper, ret, id, dOld, dNew, calls, polls, visited, mutexKV, procs, setErr>>

resourceSFSFileSystemV2Delete_Return ==
    /\ pc = "waited" /\ resource = "sfs" /\ oper = "Delete"
    /\ IF waitErr # "nil"
       THEN ret' = "err" /\ UNCHANGED id
       ELSE ret' = "ok" /\ id' = ""
    /\ pc' = "done"
    /\ UNCHANGED <<resource, oper, dOld, dNew, calls, polls, waitErr, visited, mutexKV, procs, setErr>>

----------------------------------------------------------------------------
(* WAF precise protection rule                                             *)

\* Longest `start` / `end` string of a configuration.
MaxStrLen == 2

\* Strings are sequences of characters.
Chars == {"0", "1", "-", "x"}

Strs == UNION {[1..n -> Chars] : n \in 0..MaxStrLen}

Digits == {"0", "1", "2", "3", "4", "5", "6", "7", "8", "9"}

DigitVal(c) ==
    CASE c = "0" -> 0 [] c = "1" -> 1 [] c = "2" -> 2 [] c = "3" -> 3
      [] c = "4" -> 4 [] c = "5" -> 5 [] c = "6" -> 6 [] c = "7" -> 7
      [] c = "8" -> 8 [] c = "9" -> 9

DigitChar(v) ==
    CASE v = 0 -> "0" [] v = 1 -> "1" [] v = 2 -> "2" [] v = 3 -> "3"
      [] v = 4 -> "4" [] v = 5 -> "5" [] v = 6 -> "6" [] v = 7 -> "7"
      [] v = 8 -> "8" [] v = 9 -> "9"

RECURSIVE DecimalValue(_)
DecimalValue(s) ==
    IF s = <<>> THEN 0
    ELSE 10 * DecimalValue(SubSeq(s, 1, Len(s) - 1)) + DigitVal(s[Len(s)])

\* strconv.ParseInt(s, 10, 64): an optional sign, then one or more decimal
\* digits.  (Values of the strings modelled here are far inside int64.)
ParseInt(s) ==
    LET signed == s # <<>> /\ s[1] \in {"+", "-"}
        body   == IF signed THEN Tail(s) ELSE s
    IN  IF body = <<>> \/ \E i \in 1..Len(body) : body[i] \notin Digits
        THEN [ok |-> FALSE, val |-> 0]
        ELSE [ok |-> TRUE,
              val |-> IF signed /\ s[1] = "-"
                      THEN 0 - DecimalValue(body) ELSE DecimalValue(body)]

RECURSIVE FormatNat(_)
FormatNat(v) ==
    IF v < 10 THEN <<DigitChar(v)>>
    ELSE Append(FormatNat(v \div 10), DigitChar(v % 10))

\* strconv.FormatInt(v, 10)
FormatInt(v) == IF v < 0 THEN <<"-">> \o FormatNat(0 - v) ELSE FormatNat(v)

WafConditions ==
    <<[category |-> "path", index |-> "", logic |-> 1, contents |-> <<"/admin">>]>>

WafData ==
    [policy_id : {"pol1"}, name : {"rule"}, time : BOOLEAN, start : Strs,
     end : Strs, conditions : {WafConditions}, action_category : {"block"},
     priority : {0, 1}]

WafZero ==
    [policy_id |-> "", name |-> "", time |-> FALSE, start |-> <<>>,
     end |-> <<>>, conditions |-> <<>>, action_category |-> "", priority |-> 0]

\* Rules the API may return from preciseprotection_rules.Get in Read.
RemoteWafRules(d) ==
    {[Id |-> NewID, PolicyID |-> d.policy_id, Name |-> d.name, Time |-> d.time,
      Start |-> 0, End |-> 0, Conditions |-> d.conditions,
      Action |-> d.action_category, Priority |-> d.priority],
     [Id |-> NewID, PolicyID |-> d.policy_id, Name |-> "srv", Time |-> TRUE,
      Start |-> 101, End |-> 110, Conditions |-> d.conditions,
      Action |-> "block", Priority |-> 1]}

\* d.GetOk(key) for a string attribute: the key is in the schema and its value
\* is not the empty string.  A key the schema does not have is never set.
GetOk(d, key) == key \in DOMAIN d /\ d[key] # <<>>

\* The attribute whose presence makes Create translate `end`.
WafEndGuardKey == "cache_control"

\* Create returns "error converting start/end" before any request.
WafCreateParseError(d) ==
    \/ GetOk(d, "start") /\ ~ParseInt(d.start).ok
    \/ GetOk(d, WafEndGuardKey) /\ ~ParseInt(d["end"]).ok

\* createOpts of resourceWafPreciseProtectionRuleV1Create.
WafCreateOpts(d) ==
    [Name       |-> d.name,
     Time       |-> d.time,
     Conditions |-> d.conditions,
     Action     |-> d.action_category,
     Priority   |-> d.priority,
     Start      |-> IF GetOk(d, "start") THEN ParseInt(d.start).val ELSE 0,
     End        |-> IF GetOk(d, WafEndGuardKey) THEN ParseInt(d["end"]).val ELSE 0]

resourceWafPreciseProtectionRuleV1Create ==
    /\ pc = "start" /\ resource = "waf" /\ oper = "Create"
    /\ \E clientOk \in BOOLEAN, res \in {"ok", "err"} :
         IF ~clientOk \/ WafCreateParseError(dNew)
         THEN /\ res = "ok" /\ ret' = "err" /\ pc' = "done" /\ UNCHANGED <<calls, id>>
         ELSE /\ calls' = Append(calls, [fn |-> "preciseprotection_rules.Create",
                                         policy |-> dNew.policy_id,
                                         opts |-> WafCreateOpts(dNew), res |-> res])
              /\ IF res = "ok"
                 THEN pc' = "read" /\ id' = NewID /\ UNCHANGED ret
                 ELSE pc' = "done" /\ ret' = "err" /\ UNCHANGED id
    /\ UNCHANGED <<resource, oper, dOld, dNew, polls, waitErr, visited, mutexKV, procs, setErr>>

\* What Read does with the result of preciseprotection_rules.Get.
WafReadResult(res, n) ==
    IF res = "404" THEN [id |-> "", d |-> dNew, ret |-> "ok"]
    ELSE IF res = "err" THEN [id |-> id, d |-> dNew, ret |-> "err"]
    ELSE [id |-> n.Id,
          d  |-> [policy_id |-> n.PolicyID, name |-> n.Name, time |-> n.Time,
                  start |-> FormatInt(n.Start), end |-> FormatInt(n.End),
                  conditions |-> n.Conditions, action_category |-> n.Action,
                  priority |-> n.Priority],
          ret |-> "ok"]

resourceWafPreciseProtectionRuleV1Read ==
    /\ resource = "waf"
    /\ \/ pc = "start" /\ oper = "Read"
       \/ pc = "read"
    /\ \E clientOk \in BOOLEAN, res \in Responses, n \in RemoteWafRules(dNew) :
         IF ~clientOk
         THEN /\ res = "ok" /\ n.Name # "srv"
              /\ ret' = "err" /\ UNCHANGED <<id, dNew, calls>>
         ELSE LET out == WafReadResult(res, n)
              IN  /\ res # "ok" => n.Name # "srv"
                  /\ calls' = Append(calls, [fn |-> "preciseprotection_rules.Get",
                                             res |-> res, status |-> "",
                                             in |-> "read"])
                  /\ id' = out.id /\ dNew' = out.d /\ ret' = out.ret
    /\ pc' = "done"
    /\ UNCHANGED <<resource, oper, dOld, polls, waitErr, visited, mutexKV, procs, setErr>>

resourceWafPreciseProtectionRuleV1Delete ==
    /\ pc = "start" /\ resource = "waf" /\ oper = "Delete"
    /\ \E clientOk \in BOOLEAN, res \in {"ok", "err"} :
         IF ~clientOk
         THEN /\ res = "ok" /\ ret' = "err" /\ UNCHANGED <<calls, id>>
         ELSE /\ calls' = Append(calls, [fn |-> "preciseprotection_rules.Delete",
                                         res |-> res])
              /\ IF res = "ok"
                 THEN ret' = "ok" /\ id' = ""
                 ELSE ret' = "err" /\ UNCHANGED id
    /\ pc' = "done"
    /\ UNCHANGED <<resource, oper, dOld, dNew, polls, waitErr, visited, mutexKV, procs, setErr>>

----------------------------------------------------------------------------
(* Resource schemas and the provider's InternalValidate                    *)

Attr(name, required, optional, computed, forceNew) ==
    [name |-> name, Required |-> required, Optional |-> optional,
     Computed |-> computed, ForceNew |-> forceNew]

ResourceNetworkingRouterV2 ==
    [Update |-> TRUE,
     Schema |-> <<
        Attr("region",           FALSE, TRUE, TRUE,  TRUE),
        Attr("name",             FALSE, TRUE, FALSE, FALSE),
        Attr("admin_state_up",   FALSE, TRUE, TRUE,  FALSE),
        Attr("distributed",      FALSE, TRUE, TRUE,  TRUE),
        Attr("external_gateway", FALSE, TRUE, FALSE, FALSE),
        Attr("enable_snat",      FALSE, TRUE, TRUE,  FALSE),
        Attr("tenant_id",        FALSE, TRUE, TRUE,  TRUE),
        Attr("value_specs",      FALSE, TRUE, FALSE, TRUE) >>]

ResourceSFSFileSystemV2 ==
    [Update |-> TRUE,
     Schema |-> <<
        Attr("region",             FALSE, TRUE,  TRUE,  TRUE),
        Attr("share_proto",        FALSE, TRUE,  FALSE, FALSE),
        Attr("size",               TRUE,  FALSE, FALSE, FALSE),
        Attr("name",               FALSE, TRUE,  FALSE, FALSE),
        Attr("status",             FALSE, FALSE, TRUE,  FALSE),
        Attr("description",        FALSE, TRUE,  TRUE,  FALSE),
        Attr("is_public",          FALSE, TRUE,  FALSE, TRUE),
        Attr("metadata",           FALSE, TRUE,  FALSE, TRUE),
        Attr("availability_zone",  FALSE, TRUE,  TRUE,  TRUE),
        Attr("access_level",       TRUE,  FALSE, FALSE, FALSE),
        Attr("access_type",        FALSE, TRUE,  FALSE, FALSE),
        Attr("access_to",          TRUE,  FALSE, FALSE, FALSE),
        Attr("share_access_id",    FALSE, FALSE, TRUE,  FALSE),
        Attr("access_rule_status", FALSE, FALSE, TRUE,  FALSE),
        Attr("host",               FALSE, FALSE, TRUE,  FALSE),
        Attr("export_location",    FALSE, FALSE, TRUE,  FALSE),
        Attr("volume_type",        FALSE, FALSE, TRUE,  FALSE),
        Attr("share_type",         FALSE, FALSE, TRUE,  FALSE) >>]

\* Mutant: `index` of a condition is not ForceNew.
WafConditionsElemIndexInPlace ==
    << Attr("conditions.category", TRUE,  FALSE, FALSE, TRUE),
       Attr("conditions.index",    FALSE, TRUE,  FALSE, FALSE),
       Attr("conditions.logic",    TRUE,  FALSE, FALSE, TRUE),
       Attr("conditions.contents", TRUE,  FALSE, FALSE, TRUE) >>

\* The nested fields of `conditions` (Elem: &schema.Resource).
WafConditionsElem ==
    << Attr("conditions.category", TRUE,  FALSE, FALSE, TRUE),
       Attr("conditions.index",    FALSE, TRUE,  FALSE, TRUE),
       Attr("conditions.logic",    TRUE,  FALSE, FALSE, TRUE),
       Attr("conditions.contents", TRUE,  FALSE, FALSE, TRUE) >>

ResourceWafPreciseProtectionRuleV1 ==
    [Update |-> FALSE,
     Schema |-> <<
        Attr("policy_id",       TRUE,  FALSE, FALSE, TRUE),
        Attr("name",            TRUE,  FALSE, FALSE, TRUE),
        Attr("time",            FALSE, TRUE,  FALSE, TRUE),
        Attr("start",           FALSE, TRUE,  TRUE,  TRUE),
        Attr("end",             FALSE, TRUE,  TRUE,  TRUE),
        Attr("conditions",      TRUE,  FALSE, FALSE, TRUE) >>
        \o WafConditionsElem \o <<
        Attr("action_category", TRUE,  FALSE, FALSE, TRUE),
        Attr("priority",        FALSE, TRUE,  FALSE, TRUE) >>]

ResourceOf(r) ==
    CASE r = "router" -> ResourceNetworkingRouterV2
      [] r = "sfs"    -> ResourceSFSFileSystemV2
      [] r = "waf"    -> ResourceWafPreciseProtectionRuleV1

\* An attribute the configuration may set.
Configurable(a) == a.Required \/ a.Optional

\* A field of the resource itself, not of a nested Elem resource.
IsTopLevel(a) ==
    \A i \in 1..Len(WafConditionsElem) : a.name # WafConditionsElem[i].name

\* The update rule schema.Resource.InternalValidate applies to the fields of a
\* top-level resource: without an Update operation every attribute that is
\* not Computed must be ForceNew ("No Update defined, must set ForceNew on").
PassesUpdateRule(res, a) ==
    res.Update \/ ~IsTopLevel(a) \/ a.ForceNew \/ a.Computed

\* TestProvider: Provider().InternalValidate(), one attribute per step.
InternalValidate ==
    /\ pc = "start" /\ oper = "Validate"
    /\ LET res == ResourceOf(resource)
       IN  IF visited = Len(res.Schema)
           THEN pc' = "done" /\ ret' = "ok" /\ UNCHANGED visited
           ELSE IF PassesUpdateRule(res, res.Schema[visited + 1])
           THEN visited' = visited + 1 /\ UNCHANGED <<pc, ret>>
           ELSE visited' = visited + 1 /\ pc' = "done" /\ ret' = "err"
    /\ UNCHANGED <<resource, oper, id, dOld, dNew, calls, polls, waitErr, mutexKV, procs, setErr>>

----------------------------------------------------------------------------
(* Terraform core invoking a handler                                       *)

InvokeRouter ==
    /\ pc = "idle"
    /\ resource' = "router"
    /\ \E op \in {"Create", "Read", "Update", "Delete"},
          old \in RouterData, new \in RouterData :
         /\ oper' = op
         /\ dNew' = new
         \* distributed and tenant_id are ForceNew: an Update never changes them
         /\ op = "Update" => /\ old.distributed = new.distributed
                             /\ old.tenant_id = new.tenant_id
         /\ op # "Update" => old = new
         /\ IF op = "Create"
            THEN id' = "" /\ dOld' = RouterZero
            ELSE id' = NewID /\ dOld' = old
    /\ pc' = "start"
    /\ UNCHANGED <<ret, calls, polls, waitErr, visited, mutexKV, procs, setErr>>

InvokeSFS ==
    /\ pc = "idle"
    /\ resource' = "sfs"
    /\ \E op \in {"Create", "Read", "Update", "Delete"},
          old \in SFSData, new \in SFSData :
         /\ oper' = op
         /\ dNew' = IF op = "Create"
                    THEN [new EXCEPT !.share_access_id = "", !.status = ""]
                    ELSE new
         /\ op # "Update" => old = new
         /\ IF op = "Create"
            THEN id' = "" /\ dOld' = SFSZero
            ELSE id' = NewID /\ dOld' = old
    /\ pc' = "start"
    /\ UNCHANGED <<ret, calls, polls, waitErr, visited, mutexKV, procs, setErr>>

InvokeWaf ==
    /\ pc = "idle"
    /\ resource' = "waf"
    /\ \E op \in {"Create", "Read", "Delete"}, new \in WafData :
         /\ oper' = op
         /\ dNew' = new
         /\ op # "Create" => new.start = <<"0">> /\ new.end = <<"0">>
         /\ IF op = "Create"
            THEN id' = "" /\ dOld' = WafZero
            ELSE id' = NewID /\ dOld' = new
    /\ pc' = "start"
    /\ UNCHANGED <<ret, calls, polls, waitErr, visited, mutexKV, procs, setErr>>

InvokeValidate ==
    /\ pc = "idle"
    /\ \E r \in {"router", "sfs", "waf"} : resource' = r
    /\ oper' = "Validate"
    /\ pc' = "start"
    /\ UNCHANGED <<ret, id, dOld, dNew, calls, polls, waitErr, visited, mutexKV, procs, setErr>>

-----------------------------------------------------------------------------
(* Concurrent Update calls of the router (Terraform runs the handlers of    *)
(* different resource instances in parallel goroutines)                     *)

\* Update calls that may run at the same time.
NumProcs == 2

Procs == 1..NumProcs

\* Router IDs the concurrent calls are made for.
RouterIDs == {"r1", "r2"}

\* Prior state and plan of a concurrent call: one the enable_snat check
\* rejects, one that gets to its request.
ConcPlans ==
    {[old |-> RouterZero, new |-> [RouterZero EXCEPT !.enable_snat = TRUE]],
     [old |-> RouterZero, new |-> [RouterZero EXCEPT !.name = "r"]]}

ProcZero ==
    [pc |-> "idle", id |-> "", old |-> RouterZero, new |-> RouterZero, ret |-> "none"]

\* MutexKV: one mutex per key; Lock blocks while the key's mutex is locked.
MutexKVFree(m, key) == ~m[key]

MutexKVLock(m, key) == [m EXCEPT ![key] = TRUE]

MutexKVUnlock(m, key) == [m EXCEPT ![key] = FALSE]

\* Mutant: Unlock is called at the end of the function body instead of deferred.
RouterUpdateReturnUnlockAtEnd(m, key, path) ==
    IF path = "read" THEN MutexKVUnlock(m, key) ELSE m

\* osMutexKV when Update returns by `path` ("client", "rejected", "request",
\* "read"): the deferred Unlock runs on every return.
RouterUpdateReturn(m, key, path) ==
    MutexKVUnlock(m, key)

\* Terraform calls Update for a router: routerId := d.Id()
resourceNetworkingRouterV2Update_Enter(p) ==
    /\ procs[p].pc = "idle"
    /\ \E k \in RouterIDs, plan \in ConcPlans :
         procs' = [procs EXCEPT ![p] = [pc |-> "lock", id |-> k, old |-> plan.old,
                                        new |-> plan.new, ret |-> "none"]]
    /\ UNCHANGED <<resource, oper, pc, ret, id, dOld, dNew, calls, polls, waitErr,
                   visited, mutexKV, setErr>>

\* osMutexKV.Lock(routerId)
resourceNetworkingRouterV2Update_Lock(p) ==
    /\ procs[p].pc = "lock"
    /\ MutexKVFree(mutexKV, procs[p].id)
    /\ mutexKV' = MutexKVLock(mutexKV, procs[p].id)
    /\ procs' = [procs EXCEPT ![p].pc = "locked"]
    /\ UNCHANGED <<resource, oper, pc, ret, id, dOld, dNew, calls, polls, waitErr,
                   visited, setErr>>

\* The body of Update up to the routers.Update request.
resourceNetworkingRouterV2Update_Request(p) ==
    /\ procs[p].pc = "locked"
    /\ \E clientOk \in BOOLEAN, res \in {"ok", "err"} :
         LET path == IF ~clientOk THEN "client"
                     ELSE IF RouterUpdateRejects(procs[p].old, procs[p].new)
                     THEN "rejected"
                     ELSE IF res # "ok" THEN "request" ELSE "none"
         IN  /\ path \in {"client", "rejected"} => res = "ok"
             /\ IF path = "none"
                THEN /\ procs' = [procs EXCEPT ![p].pc = "read"]
                     /\ UNCHANGED mutexKV
                ELSE /\ procs' = [procs EXCEPT ![p].pc = "idle", ![p].ret = "err"]
                     /\ mutexKV' = RouterUpdateReturn(mutexKV, procs[p].id, path)
    /\ UNCHANGED <<resource, oper, pc, ret, id, dOld, dNew, calls, polls, waitErr,
                   visited, setErr>>

\* return resourceNetworkingRouterV2Read(ctx, d, meta)
resourceNetworkingRouterV2Update_Read(p) ==
    /\ procs[p].pc = "read"
    /\ \E get \in Responses :
         procs' = [procs EXCEPT ![p].pc = "idle",
                                ![p].ret = IF get = "err" THEN "err" ELSE "ok"]
    /\ mutexKV' = RouterUpdateReturn(mutexKV, procs[p].id, "read")
    /\ UNCHANGED <<resource, oper, pc, ret, id, dOld, dNew, calls, polls, waitErr,
                   visited, setErr>>

-----------------------------------------------------------------------------

Init ==
    /\ resource = "none" /\ oper = "none" /\ pc = "idle" /\ ret = "none"
    /\ id = "" /\ dOld = RouterZero /\ dNew = RouterZero
    /\ calls = <<>> /\ polls = 0 /\ waitErr = "none" /\ visited = 0
    /\ mutexKV = [k \in RouterIDs |-> FALSE]
    /\ procs = [p \in Procs |-> ProcZero]
    /\ setErr = "none"

Next ==
    \/ InvokeRouter
    \/ InvokeSFS
    \/ InvokeWaf
    \/ InvokeValidate
    \/ resourceNetworkingRouterV2Create
    \/ resourceNetworkingRouterV2Create_Refresh
    \/ resourceNetworkingRouterV2Create_Timeout
    \/ resourceNetworkingRouterV2Create_SetId
    \/ resourceNetworkingRouterV2Read
    \/ resourceNetworkingRouterV2Update
    \/ resourceNetworkingRouterV2Delete
    \/ resourceNetworkingRouterV2Delete_Refresh
    \/ resourceNetworkingRouterV2Delete_Timeout
    \/ resourceNetworkingRouterV2Delete_Return
    \/ resourceSFSFileSystemV2Create
    \/ resourceSFSFileSystemV2Create_Refresh
    \/ resourceSFSFileSystemV2Create_Timeout
    \/ resourceSFSFileSystemV2Create_GrantAccess
    \/ resourceSFSFileSystemV2Read
    \/ resourceSFSFileSystemV2Update
    \/ resourceSFSFileSystemV2Delete
    \/ resourceSFSFileSystemV2Delete_Refresh
    \/ resourceSFSFileSystemV2Delete_Timeout
    \/ resourceSFSFileSystemV2Delete_Return
    \/ resourceWafPreciseProtectionRuleV1Create
    \/ resourceWafPreciseProtectionRuleV1Read
    \/ resourceWafPreciseProtectionRuleV1Delete
    \/ InternalValidate

Spec == Init /\ [][Next]_vars

\* The handlers of the router resource alone.
RouterNext ==
    \/ InvokeRouter
    \/ resourceNetworkingRouterV2Create
    \/ resourceNetworkingRouterV2Create_Refresh
    \/ resourceNetworkingRouterV2Create_Timeout
    \/ resourceNetworkingRouterV2Create_SetId
    \/ resourceNetworkingRouterV2Read
    \/ resourceNetworkingRouterV2Update
    \/ resourceNetworkingRouterV2Delete
    \/ resourceNetworkingRouterV2Delete_Refresh
    \/ resourceNetworkingRouterV2Delete_Timeout
    \/ resourceNetworkingRouterV2Delete_Return

\* A handler is sequential code: once invoked it keeps taking its next step
\* (the SDK calls return, and the wait ends at the latest by its timeout).
LiveSpec == Init /\ [][RouterNext]_vars /\ WF_vars(RouterNext)

\* The concurrent Update calls.
ConcNext ==
    \/ \E p \in Procs : resourceNetworkingRouterV2Update_Enter(p)
    \/ \E p \in Procs : resourceNetworkingRouterV2Update_Lock(p)
    \/ \E p \in Procs : resourceNetworkingRouterV2Update_Request(p)
    \/ \E p \in Procs : resourceNetworkingRouterV2Update_Read(p)

\* A call that has started keeps running (its SDK calls return), and a call
\* waiting in Lock gets the mutex if it is free again and again (sync.Mutex
\* hands a starving waiter the mutex).
ConcSpec ==
    /\ Init /\ [][ConcNext]_vars
    /\ \A p \in Procs :
         /\ SF_vars(resourceNetworkingRouterV2Update_Lock(p))
         /\ WF_vars(resourceNetworkingRouterV2Update_Request(p))
         /\ WF_vars(resourceNetworkingRouterV2Update_Read(p))

----------------------------------------------------------------------------
(* Properties                                                              *)

InCreate(r) == resource = r /\ oper = "Create"
InUpdate(r) == resource = r /\ oper = "Update"
InDelete(r) == resource = r /\ oper = "Delete"

\* The refreshes of the running wait that saw `status`.
Observed(fn, status) ==
    \E i \in 1..Len(calls) :
        /\ calls[i].fn = fn /\ calls[i].in = "wait"
        /\ calls[i].res = "ok" /\ calls[i].status = status

\* C1: router Create sets the ID and returns without error only if the wait
\* observed the router ACTIVE; a wait that ends by timeout, by an unexpected
\* status or by a refresh error makes Create return an error.
C1_CreateWaitsForActive ==
    (InCreate("router") /\ pc = "done") =>
        /\ (ret = "ok" /\ id # "") => Observed("routers.Get", "ACTIVE")
        /\ waitErr \in {"timeout", "unexpected", "refresh"} => ret = "err"

\* C2: SFS Create issues shares.Create, then the refreshes of the wait, then
\* shares.GrantAccess only after a refresh saw 'available', and sets the ID only
\* after GrantAccess succeeded; a failed wait or a failed GrantAccess makes
\* Create return an error with the ID unset.
C2_SFSCreateOrder ==
    InCreate("sfs") =>
        /\ \A j \in 1..Len(calls) :
             calls[j].fn = "shares.GrantAccess" =>
                /\ j > 2
                /\ calls[1].fn = "shares.Create" /\ calls[1].res = "ok"
                /\ \A i \in 2..(j - 1) :
                     calls[i].fn = "shares.Get" /\ calls[i].in = "wait"
                /\ calls[j - 1].res = "ok" /\ calls[j - 1].status = "available"
        /\ id # "" =>
             \E j \in 1..Len(calls) :
                calls[j].fn = "shares.GrantAccess" /\ calls[j].res = "ok"
        /\ (pc = "done" /\ waitErr \in {"timeout", "unexpected", "refresh"}) =>
             ret = "err" /\ id = ""
        /\ (pc = "done" /\ \E j \in 1..Len(calls) :
                calls[j].fn = "shares.GrantAccess" /\ calls[j].res # "ok") =>
             ret = "err" /\ id = ""

C2_Witness ==
    /\ InCreate("sfs") /\ pc = "done" /\ ret = "ok" /\ id = NewID
    /\ Observed("shares.Get", "creating")
    /\ Observed("shares.Get", "available")

\* The Get request a Read step issues, if the step is one.
ReadGets == {"routers.Get", "shares.Get", "preciseprotection_rules.Get"}

ReadStep ==
    /\ Len(calls') > Len(calls)
    /\ calls'[Len(calls) + 1].fn \in ReadGets
    /\ calls'[Len(calls) + 1].in = "read"

\* C3: in each of the three Reads, a 404 from Get clears the ID and returns no
\* error; any other Get error returns an error and leaves the ID and every
\* attribute as they were.
C3_ReadGetErrors ==
    [][ReadStep =>
          LET res == calls'[Len(calls) + 1].res
          IN  /\ res = "404" => id' = "" /\ ret' = "ok"
              /\ res = "err" => ret' = "err" /\ id' = id /\ dNew' = dNew]_vars

C3_Witness ==
    /\ resource = "sfs" /\ oper = "Update" /\ pc = "done" /\ calls # <<>>
    /\ Last(calls).fn = "shares.Get" /\ Last(calls).in = "read"
    /\ Last(calls).res = "err" /\ ret = "err" /\ id = NewID /\ dNew # dOld

\* The create request of the WAF rule, while d still holds the configuration.
WafCreateRequested ==
    /\ InCreate("waf") /\ Len(calls) = 1
    /\ calls[1].fn = "preciseprotection_rules.Create"

\* C4: the create request of a WAF rule carries Start = the decimal value of
\* `start` whenever `start` is set, and End = the decimal value of `end`
\* whenever `end` is set.
C4_WafTimeWindow ==
    WafCreateRequested =>
        /\ dNew.start # <<>> =>
             ParseInt(dNew.start).ok /\ calls[1].opts.Start = ParseInt(dNew.start).val
        /\ (dNew.end # <<>> /\ ParseInt(dNew.end).ok) =>
             calls[1].opts.End = ParseInt(dNew.end).val

\* The attributes of the SFS schema that are configurable and not ForceNew.
SFSInPlace ==
    {"share_proto", "size", "name", "description",
     "access_level", "access_type", "access_to"}

\* Request c is a mutating request that carries the value v of attribute a.
Carries(c, a, v) ==
    CASE a = "share_proto"  -> c.fn = "shares.Create" /\ c.opts.ShareProto = v
      [] a = "name"         -> c.fn = "shares.Update" /\ c.opts.DisplayName = v
      [] a = "description"  -> c.fn = "shares.Update" /\ c.opts.DisplayDescription = v
      [] a = "size"         -> c.fn \in {"shares.Expand", "shares.Shrink"}
                               /\ c.opts.NewSize = v
      [] a = "access_level" -> c.fn = "shares.GrantAccess" /\ c.opts.AccessLevel = v
      [] a = "access_type"  -> c.fn = "shares.GrantAccess" /\ c.opts.AccessType = v
      [] a = "access_to"    -> c.fn = "shares.GrantAccess" /\ c.opts.AccessTo = v

\* C5: when SFS Update reaches its final Read, every changed in-place
\* attribute has been sent in at least one mutating request.
C5_NoChangeDropped ==
    (InUpdate("sfs") /\ pc = "read") =>
        \A a \in SFSInPlace :
            HasChange(a) => \E i \in 1..Len(calls) : Carries(calls[i], a, dNew[a])

\* C6: a resource without Update has only ForceNew configurable attributes,
\* nested fields of `conditions` included, and InternalValidate accepts each of
\* the three schemas.
C6_SchemaUpdateRule ==
    oper = "Validate" =>
        /\ \A i \in 1..visited :
             LET res == ResourceOf(resource)
             IN  (Configurable(res.Schema[i]) /\ ~res.Schema[i].ForceNew) => res.Update
        /\ ret # "err"

C6_Witness ==
    /\ oper = "Validate" /\ resource = "waf" /\ pc = "done" /\ ret = "ok"
    /\ visited = Len(ResourceWafPreciseProtectionRuleV1.Schema)
    /\ \E i \in 1..visited :
         ResourceWafPreciseProtectionRuleV1.Schema[i].name = "conditions.index"

\* C7: router Delete clears the ID only after routers.Get or routers.Delete
\* returned 404; a refresh that finds the router re-issues routers.Delete and,
\* when that is accepted, reports ACTIVE (the wait goes on); a non-404 error of
\* either request, or the timeout, makes Delete return an error with the ID kept.
C7_RouterDeleteSafety ==
    InDelete("router") =>
        /\ id = "" =>
             \E i \in 1..Len(calls) :
                calls[i].fn \in {"routers.Get", "routers.Delete"} /\ calls[i].res = "404"
        /\ \A i \in 1..Len(calls) :
             (calls[i].fn = "routers.Get" /\ calls[i].res = "ok") =>
                i < Len(calls) /\ calls[i + 1].fn = "routers.Delete"
        /\ \A i \in 1..Len(calls) :
             calls[i].fn = "routers.Delete" => i > 1 /\ calls[i - 1].fn = "routers.Get"
        /\ (calls # <<>> /\ Last(calls).res = "ok") =>
             pc = "wait" \/ waitErr = "timeout"
        /\ (pc = "done" /\ (waitErr = "timeout"
                            \/ \E i \in 1..Len(calls) : calls[i].res = "err")) =>
             ret = "err" /\ id = NewID

C7_Witness ==
    /\ InDelete("router") /\ pc = "done" /\ ret = "ok" /\ id = ""
    /\ Len(calls) = 3
    /\ calls[2].fn = "routers.Delete" /\ calls[2].res = "ok"
    /\ calls[3].fn = "routers.Get" /\ calls[3].res = "404"

\* A refresh of the router delete wait has just been answered 404.
RouterGone ==
    /\ InDelete("router") /\ calls # <<>> /\ Last(calls).res = "404"

\* C8: router Delete always returns, with an error when the timeout elapsed;
\* and once a request of a refresh is answered 404 (no non-404 error having
\* ended the wait before), Delete returns without error with the ID cleared.
C8_RouterDeleteTerminates ==
    /\ (InDelete("router") /\ pc = "start") ~>
          (pc = "done" /\ ret # "none" /\ (waitErr = "timeout" => ret = "err"))
    /\ RouterGone ~> (pc = "done" /\ ret = "ok" /\ id = "")

C8_Witness ==
    /\ InDelete("router") /\ pc = "done" /\ ret = "ok" /\ id = ""
    /\ polls = MaxPolls /\ Last(calls).fn = "routers.Get"

\* C9: SFS Delete issues shares.Delete once, before any refresh; it clears the
\* ID only after a refresh saw 'deleted' (shares.Get answered 404); a failed
\* shares.Delete is followed by no refresh; a failed shares.Delete, a non-404
\* refresh error, an unexpected status or the timeout make Delete return an
\* error with the ID kept.
C9_SFSDeleteOrder ==
    InDelete("sfs") =>
        /\ calls # <<>> => calls[1].fn = "shares.Delete"
        /\ \A i \in 2..Len(calls) :
             /\ calls[i].fn = "shares.Get" /\ calls[i].in = "wait"
             /\ calls[1].res = "ok"
        /\ (pc \in {"wait", "waited"} \/ (pc = "done" /\ waitErr # "none")) =>
             Cardinality(CallsOf("shares.Delete")) = 1
        /\ id = "" => \E i \in 2..Len(calls) : calls[i].res = "404"
        /\ (pc = "done" /\ calls # <<>> /\ calls[1].res # "ok") =>
             Len(calls) = 1 /\ ret = "err" /\ id = NewID
        /\ (pc = "done" /\ \/ waitErr = "timeout"
                           \/ \E i \in 2..Len(calls) :
                                \/ calls[i].res = "err"
                                \/ calls[i].res = "ok" /\ calls[i].status
                                      \notin {"available", "deleting", "deleted"}) =>
             ret = "err" /\ id = NewID

C9_Witness ==
    /\ InDelete("sfs") /\ pc = "done" /\ ret = "ok" /\ id = ""
    /\ Len(calls) = 3
    /\ calls[2].res = "ok" /\ calls[2].status = "deleting"
    /\ calls[3].res = "404"

\* The update request of the router, while d still holds the plan.
RouterUpdateRequested ==
    /\ InUpdate("router") /\ Len(calls) = 1 /\ calls[1].fn = "routers.Update"

\* C10: the routers.Update request has GatewayInfo iff external_gateway or
\* enable_snat changed; its NetworkID is the configured external_gateway and
\* its EnableSNAT is set only if enable_snat changed; Name and AdminStateUp
\* are set only if name, respectively admin_state_up, changed.
C10_RouterUpdateOpts ==
    RouterUpdateRequested =>
        LET o   == calls[1].opts
            has == o.GatewayInfo # [nil |-> TRUE]
        IN  /\ has <=> (HasChange("external_gateway") \/ HasChange("enable_snat"))
            /\ has => o.GatewayInfo.NetworkID = dNew.external_gateway
            /\ has => (o.GatewayInfo.EnableSNAT # "unset" => HasChange("enable_snat"))
            /\ o.Name # "" => HasChange("name")
            /\ o.AdminStateUp # "unset" => HasChange("admin_state_up")

C10_Witness ==
    /\ RouterUpdateRequested /\ pc = "read"
    /\ dOld.external_gateway = "net1" /\ dNew.external_gateway = ""
    /\ calls[1].opts.GatewayInfo = [NetworkID |-> "", EnableSNAT |-> "unset"]
    /\ calls[1].opts.Name = "rt" /\ calls[1].opts.AdminStateUp = "unset"

\* SFS Update has issued its mutating requests and d still holds the plan.
SFSUpdateIssued ==
    /\ InUpdate("sfs") /\ pc \in {"read", "done"}
    /\ \A i \in 1..Len(calls) : calls[i].fn # "shares.Get"

Resizes == CallsOf("shares.Expand") \cup CallsOf("shares.Shrink")

\* C11: a changed `size` is sent in exactly one resize request with the new
\* size, shares.Expand if the old size is smaller and shares.Shrink otherwise;
\* an unchanged `size` causes no resize request; a failed resize request ends
\* Update with an error and without the final Read.
C11_SFSResize ==
    /\ SFSUpdateIssued =>
        /\ Cardinality(Resizes) <= 1
        /\ \A i \in Resizes :
             /\ HasChange("size")
             /\ calls[i].opts.NewSize = dNew.size
             /\ calls[i].fn = "shares.Expand" <=> dOld.size < dNew.size
        /\ (pc = "read" /\ HasChange("size")) => Cardinality(Resizes) = 1
    /\ InUpdate("sfs") =>
        \A i \in Resizes :
            calls[i].res # "ok" => i = Len(calls) /\ pc = "done" /\ ret = "err"

C11_Witness ==
    /\ SFSUpdateIssued /\ pc = "read"
    /\ dOld.size = 2 /\ dNew.size = 1 /\ HasChange("name")
    /\ Last(calls).fn = "shares.Shrink" /\ Last(calls).opts.NewSize = 1

\* The answer of shares.Get to the Read that has run, when it returned a share.
SFSReadGot ==
    {i \in 1..Len(calls) :
        calls[i].fn = "shares.Get" /\ calls[i].in = "read" /\ calls[i].res = "ok"}

\* Of the metadata keys the API returns here, the ones that neither start with
\* '#sfs' nor contain 'enterprise_project_id' or 'share_used'.
UserKeys == {"team", "a#sfs", "sfs", "share_use"}

\* C12: Read sets `metadata` to exactly the entries of the share's metadata
\* whose key neither starts with '#sfs' nor contains 'enterprise_project_id'
\* nor 'share_used', values unchanged, no key added (a Read whose d.Set of
\* `metadata` fails sets nothing).
C12_SFSReadMetadata ==
    (resource = "sfs" /\ pc = "done" /\ setErr # "metadata") =>
        \A i \in SFSReadGot :
            /\ DOMAIN dNew.metadata = DOMAIN calls[i].meta \cap UserKeys
            /\ \A k \in DOMAIN dNew.metadata : dNew.metadata[k] = calls[i].meta[k]

C12_Witness ==
    /\ resource = "sfs" /\ oper = "Read" /\ pc = "done" /\ ret = "ok"
    /\ setErr = "none"
    /\ \E i \in SFSReadGot :
         /\ DOMAIN calls[i].meta = {"#sfs_quota_type", "team", "a#sfs"}
         /\ DOMAIN dNew.metadata = {"team", "a#sfs"}

\* A router handler has left its entry step and has not yet refreshed d.
RouterBeforeRefresh ==
    /\ resource = "router" /\ pc # "start"
    /\ \A i \in 1..Len(calls) : calls[i].fn # "routers.Get"

\* C13: Create with enable_snat set, and Update with enable_snat changed,
\* while external_gateway is empty, return an error and issue no
\* routers.Create, respectively routers.Update; every request that sets
\* EnableSNAT has a GatewayInfo with a non-empty NetworkID.
C13_SNATRequiresGateway ==
    /\ (RouterBeforeRefresh /\ oper = "Create"
            /\ dNew.enable_snat /\ dNew.external_gateway = "") =>
         pc = "done" /\ ret = "err" /\ calls = <<>>
    /\ (RouterBeforeRefresh /\ oper = "Update"
            /\ HasChange("enable_snat") /\ dNew.external_gateway = "") =>
         pc = "done" /\ ret = "err" /\ calls = <<>>
    /\ resource = "router" =>
         \A i \in CallsOf("routers.Create") \cup CallsOf("routers.Update") :
             LET g == calls[i].opts.GatewayInfo
             IN  g # [nil |-> TRUE] =>
                    (g.EnableSNAT # "unset" => g.NetworkID # "")

C13_Witness ==
    /\ RouterBeforeRefresh /\ oper = "Update" /\ pc = "done"
    /\ HasChange("enable_snat") /\ dNew.external_gateway = ""
    /\ dOld.external_gateway # "" /\ ret = "err" /\ calls = <<>>

\* Process p is between its Lock and its return.
InUpdateBody(p) == procs[p].pc \in {"locked", "read"}

\* C14: Update holds the lock of its router ID from entry to return: two
\* calls for the same ID are never both between Lock and return, a call for
\* an ID no running call holds is not blocked by calls for other IDs, the
\* lock is free after every return, and a call waiting for the lock gets it.
C14_UpdateLock ==
    /\ [](\A p, q \in Procs :
            (p # q /\ InUpdateBody(p) /\ InUpdateBody(q)) => procs[p].id # procs[q].id)
    /\ [](\A p \in Procs :
            (/\ procs[p].pc = "lock"
             /\ \A q \in Procs \ {p} : InUpdateBody(q) => procs[q].id # procs[p].id)
            => ENABLED resourceNetworkingRouterV2Update_Lock(p))
    /\ [](\A k \in RouterIDs :
            mutexKV[k] => \E p \in Procs : InUpdateBody(p) /\ procs[p].id = k)
    /\ \A p \in Procs : (procs[p].pc = "lock") ~> (procs[p].pc = "locked")

C14_Witness ==
    /\ procs[1].pc = "lock" /\ procs[1].id = "r1"
    /\ procs[2].pc = "idle" /\ procs[2].id = "r1" /\ procs[2].ret = "err"
    /\ ~mutexKV["r1"]
    /\ ENABLED resourceNetworkingRouterV2Update_Lock(1)

AccessChanged ==
    HasChange("access_to") \/ HasChange("access_level") \/ HasChange("access_type")

AccessCalls == CallsOf("shares.DeleteAccess") \cup CallsOf("shares.GrantAccess")

\* C15: in SFS Update, DeleteAccess (for share_access_id) and GrantAccess
\* (with the new values) are issued only when access_to, access_level or
\* access_type changed, GrantAccess right after a DeleteAccess that
\* succeeded; a failure of either ends Update with an error.
C15_SFSAccessOrder ==
    SFSUpdateIssued =>
        /\ \A i \in CallsOf("shares.GrantAccess") :
             /\ i > 1
             /\ calls[i - 1].fn = "shares.DeleteAccess"
             /\ calls[i - 1].res = "ok"
             /\ calls[i].opts = [AccessLevel |-> dNew.access_level,
                                 AccessType  |-> dNew.access_type,
                                 AccessTo    |-> dNew.access_to]
        /\ \A i \in CallsOf("shares.DeleteAccess") :
             calls[i].opts.AccessID = dOld.share_access_id
        /\ \A i \in AccessCalls :
             /\ AccessChanged
             /\ calls[i].res # "ok" => i = Len(calls) /\ pc = "done" /\ ret = "err"
        /\ Cardinality(CallsOf("shares.DeleteAccess")) <= 1
        /\ Cardinality(CallsOf("shares.GrantAccess")) <= 1
        /\ (AccessChanged /\ pc = "read") => Cardinality(AccessCalls) = 2

C15_Witness ==
    /\ SFSUpdateIssued /\ pc = "done" /\ ret = "err" /\ Len(calls) = 2
    /\ dOld.access_level = "ro" /\ dNew.access_level = "rw"
    /\ calls[1].fn = "shares.DeleteAccess" /\ calls[1].res = "ok"
    /\ calls[2].fn = "shares.GrantAccess" /\ calls[2].res = "err"
    /\ calls[2].opts.AccessLevel = "rw"

\* A Read of the share has run: shares.Get and shares.ListAccessRights both
\* answered, so the share exists and every d.Set of its attributes was made.
SFSReadListed ==
    /\ resource = "sfs" /\ pc = "done" /\ Len(calls) >= 2
    /\ Last(calls).fn = "shares.ListAccessRights" /\ Last(calls).res = "ok"
    /\ calls[Len(calls) - 1].fn = "shares.Get" /\ calls[Len(calls) - 1].in = "read"

\* C16: SFS Read returns an error whenever a d.Set of one of the share's
\* attributes (name, ...) fails, whether or not the share has an access rule.
C16_SFSReadSetErrors ==
    (SFSReadListed /\ setErr = "name") => ret = "err"

\* C17: when routers.Get fails in a refresh of the create wait,
\* waitForRouterActive does not fault and the wait gets the Get error.
C17_RefreshHandsBackError ==
    (/\ InCreate("router") /\ calls # <<>>
     /\ Last(calls).fn = "routers.Get" /\ Last(calls).in = "wait"
     /\ Last(calls).res # "ok")
    => (ret # "fault" /\ waitErr = "refresh")

====
